---- MODULE Spec2Model ----
(***************************************************************************)
(* Per-call relay and turn-taking engine of the Twilio <-> OpenAI realtime *)
(* bridge (src/index.js, the PCM16 variant): one call session, its two     *)
(* sockets, the silence timer, the flush-delay timers and the handlers of  *)
(* every telephony and AI-peer event.                                      *)
(***************************************************************************)
EXTENDS Integers, Sequences, FiniteSets, TLC

(* ---------------------------------------------------------------- *)
(* Program constants                                                *)
(* ---------------------------------------------------------------- *)
MIN_BUFFER_MS == 250

\* JavaScript null for the optional millisecond fields
\* (captureStartMs, responseStartTimestampTwilio).
Null == -1

\* JavaScript null for the optional identifiers (streamSid, lastAssistantItem, item_id).
NoId == "null"

(* ---------------------------------------------------------------- *)
(* Bounds of the model                                              *)
(* ---------------------------------------------------------------- *)
\* media timestamps are drawn from {0, TsStep, ..., MaxTsIdx * TsStep}
TsStep == 125
MaxTsIdx == 2
\* at most MaxMarks delivery markers queued
MaxMarks == 2
\* at most MaxPairs commit+request pairs scheduled or sent per session
MaxPairs == 2
\* at most MaxTruncates truncate directives per session
MaxTruncates == 1
\* at most MaxEvents events (frames, timer firings, socket events) per session
MaxEvents == 7
\* Scenario A: at most MaxFrames media frames, 20 ms apart
MaxFrames == 40
\* wire-order runs: at most MaxWireEvents events per session
MaxWireEvents == 6
\* malformed-frame runs: at most MaxMalformedEvents events per session
MaxMalformedEvents == 5
\* frame runs: at most MaxFrameEvents events per session
MaxFrameEvents == 5
\* decoder runs: frames of at most MaxFrameBytes bytes
MaxFrameBytes == 3
\* voice-activity variant: at most MaxVadEvents events per session
MaxVadEvents == 5
\* fair-timer runs: timestamps 0, 2 * TsStep, .., MaxLiveTsIdx * 2 * TsStep and at
\* most MaxLiveEvents frames and socket openings
MaxLiveTsIdx == 3
MaxLiveEvents == 6
\* marker runs: at most MaxMarkEvents events per session
MaxMarkEvents == 6
\* buffering variant: at most MaxBufferEvents events per session
MaxBufferEvents == 6

Timestamps == {TsStep * k : k \in 0..MaxTsIdx}
Sids == {"MZ1"}
Items == {"item1", "item2"}
\* response.delta of a fragment: base64 audio, or empty
Payloads == {"AAAA", "BBBB"}

VARIABLES
    \* --- per-call state (src/index.js 119-131)
    streamSid,
    latestMediaTimestamp,
    captureStartMs,
    bufferedMs,
    awaitingResponse,
    silenceTimer,          \* "null" | "pending" | "fired" | "cleared"
    lastAssistantItem,
    responseStartTimestampTwilio,
    markQueue,
    \* --- timers and sockets
    flushTimers,           \* pending COMMIT_DELAY_MS callbacks
    initTimer,             \* "none" | "pending" | "done": setTimeout(initializeSession)
    aiState,               \* readyState of openAiWs
    wsState,               \* readyState of the telephony socket
    crashed,               \* an exception escaped a timer callback
    \* --- messages sent
    aiOut,                 \* messages sent to the AI peer: update, commit, create,
                           \* truncate: how many of each; appended: some append was sent;
                           \* item, audio_end_ms: the fields of the last truncate
    twOut,                 \* messages sent to the telephony peer: clear: how many;
                           \* media, mark: some such message was sent
    \* --- history of the run
    events,                \* how many events the session has handled
    hist,                  \* event: the event handled last; rr: what requestResponse did
                           \* in it ("none" when it was not called); unanswered: pairs
                           \* sent and not yet followed by a fragment or response.done;
                           \* sinceClear: turn closes accepted since the last fragment,
                           \* response.done or start;
                           \* cycleClock: the media clock at the first fragment of the
                           \* reply now being forwarded; cycleEnded: response.done came
                           \* after its last fragment;
                           \* fresh, stale: silence timeouts scheduled and neither
                           \* fired nor cancelled, set by the most recent start or
                           \* audio frame (fresh) or before it (stale);
                           \* malformed: a frame that could not be parsed was received;
                           \* erred: an error event came while awaitingResponse was
                           \* set and no fragment, response.done or start since
    codec,                 \* one call of mulawBase64ToPcm16Base64 (decoder runs only):
                           \* mu: the bytes of the frame, i: bytes decoded so far,
                           \* pcm: the bytes written to pcmBytes; loaded: the call began
    wire                   \* what crossed the sockets, in order (kept by the wire-order
                           \* runs only): rx: the response.delta of every
                           \* response.output_audio.delta received; tx: the messages
                           \* sent to the telephony peer; ai: the types of the
                           \* messages sent to the AI peer; fr: the media frames
                           \* received (timestamp, and whether the AI socket was open);
                           \* ap: the timestamps of the frames sent on as
                           \* input_audio_buffer.append (fr, ap: frame runs only);
                           \* acked: the mark messages the telephony peer has echoed
                           \* (marker runs only); pcm16Buffer: the chunks held by the
                           \* buffering variant; audio: the audio of every append it
                           \* sent (buffering variant only)

vars == <<streamSid, latestMediaTimestamp, captureStartMs, bufferedMs, awaitingResponse,
          silenceTimer, lastAssistantItem, responseStartTimestampTwilio, markQueue,
          flushTimers, initTimer, aiState, wsState, crashed, aiOut, twOut, events, hist,
          wire, codec>>

session == <<streamSid, latestMediaTimestamp, captureStartMs, bufferedMs, awaitingResponse,
             lastAssistantItem, responseStartTimestampTwilio, markQueue>>

Max(a, b) == IF a > b THEN a ELSE b

(* ---------------------------------------------------------------- *)
(* Pure computations of the handlers                                *)
(* ---------------------------------------------------------------- *)

\* captureStartMs == null ? 0 : Math.max(0, latestMediaTimestamp - captureStartMs)
BufferedOf(cap, latest) == IF cap = Null THEN 0 ELSE Max(0, latest - cap)

\* requestResponse without the awaitingResponse guard
requestResponseOutcome_NoGuard(awaiting, cap, latest) ==
    IF BufferedOf(cap, latest) < MIN_BUFFER_MS THEN "short" ELSE "commit"

\* requestResponse without the MIN_BUFFER_MS check
requestResponseOutcome_NoMin(awaiting, cap, latest) ==
    IF awaiting THEN "skip" ELSE "commit"

\* requestResponse, its two early returns: "skip" (already awaiting),
\* "short" (below MIN_BUFFER_MS), otherwise "commit" (flush timer scheduled).
requestResponseOutcome(awaiting, cap, latest) ==
    IF awaiting THEN "skip"
    ELSE IF BufferedOf(cap, latest) < MIN_BUFFER_MS THEN "short"
    ELSE "commit"

\* the condition under which speech_started truncates the assistant
InterruptFires(queue, startTs, item) ==
    Len(queue) > 0 /\ startTs # Null /\ item # NoId

\* Math.max(0, latestMediaTimestamp - responseStartTimestampTwilio)
ElapsedOf(latest, startTs) == Max(0, latest - startTs)

\* resetSilenceTimer: clearTimeout of the old timer, one new timer pending
resetSilenceTimer == "pending"

\* clearTimeout(silenceTimer) guarded by `if (silenceTimer)`
clearSilenceTimer(t) == IF t = "pending" THEN "cleared" ELSE t

\* resetSilenceTimer without its clearTimeout: the old timeout stays scheduled
pendingAfterReset_NoCancel(t, fresh, stale) == [fresh |-> 1, stale |-> fresh + stale]

\* the timeouts scheduled after resetSilenceTimer ran in a start or media frame:
\* the one the handle t refers to is cancelled, a new one is scheduled
pendingAfterReset(t, fresh, stale) ==
    [fresh |-> 1, stale |-> fresh + stale - (IF t = "pending" THEN 1 ELSE 0)]

\* the timeouts scheduled by the latest frame once the one the handle t refers
\* to has been cancelled (stop) or has fired
pendingAfterClear(t, fresh) == IF t = "pending" THEN fresh - 1 ELSE fresh

\* ws.send on the telephony socket: dropped when the socket is no longer open
TwSend(out, type) ==
    IF wsState = "OPEN"
    THEN [out EXCEPT !.clear = IF type = "clear" THEN @ + 1 ELSE @,
                     !.media = @ \/ type = "media",
                     !.mark = @ \/ type = "mark"]
    ELSE out

\* the part of every handler that calls requestResponse (src/index.js 182-202)
RequestResponse(ev, freshLeft) ==
    LET o == requestResponseOutcome(awaitingResponse, captureStartMs, latestMediaTimestamp)
    IN  /\ o = "commit" => aiOut.commit + flushTimers < MaxPairs
        /\ bufferedMs' = IF o = "skip" THEN bufferedMs
                         ELSE BufferedOf(captureStartMs, latestMediaTimestamp)
        /\ awaitingResponse' = IF o = "commit" THEN TRUE ELSE awaitingResponse
        /\ flushTimers' = IF o = "commit" THEN flushTimers + 1 ELSE flushTimers
        /\ hist' = [hist EXCEPT !.event = ev, !.rr = o, !.fresh = freshLeft,
                                !.sinceClear = IF o = "commit" THEN @ + 1 ELSE @]

(* ---------------------------------------------------------------- *)
(* Initial state: wss.on('connection') has run                      *)
(* ---------------------------------------------------------------- *)
Init ==
    /\ streamSid = NoId
    /\ latestMediaTimestamp = 0
    /\ captureStartMs = Null
    /\ bufferedMs = 0
    /\ awaitingResponse = FALSE
    /\ silenceTimer = "null"
    /\ lastAssistantItem = NoId
    /\ responseStartTimestampTwilio = Null
    /\ markQueue = <<>>
    /\ flushTimers = 0
    /\ initTimer = "none"
    /\ aiState = "CONNECTING"
    /\ wsState = "OPEN"
    /\ crashed = FALSE
    /\ aiOut = [update |-> 0, appended |-> FALSE, commit |-> 0, create |-> 0,
                truncate |-> 0, item |-> NoId, audio_end_ms |-> 0]
    /\ twOut = [media |-> FALSE, mark |-> FALSE, clear |-> 0]
    /\ events = 0
    /\ hist = [event |-> "connection", rr |-> "none", unanswered |-> 0,
               sinceClear |-> 0, cycleClock |-> Null, cycleEnded |-> FALSE,
               fresh |-> 0, stale |-> 0, malformed |-> FALSE, erred |-> FALSE]
    /\ wire = [rx |-> <<>>, tx |-> <<>>, ai |-> <<>>, fr |-> <<>>, ap |-> <<>>,
               acked |-> 0, pcm16Buffer |-> <<>>, audio |-> <<>>]
    /\ codec = [mu |-> <<>>, i |-> 0, pcm |-> <<>>, loaded |-> FALSE]

TwilioUp == wsState = "OPEN" /\ ~crashed
AiUp == aiState = "OPEN" /\ ~crashed

(* ---------------------------------------------------------------- *)
(* Telephony frames (ws.on('message'))                              *)
(* ---------------------------------------------------------------- *)
Start(sid) ==
    /\ TwilioUp
    /\ streamSid' = sid
    /\ captureStartMs' = Null
    /\ bufferedMs' = 0
    /\ awaitingResponse' = FALSE
    /\ silenceTimer' = resetSilenceTimer
    /\ LET p == pendingAfterReset(silenceTimer, hist.fresh, hist.stale)
       IN  hist' = [hist EXCEPT !.event = "start", !.rr = "none", !.sinceClear = 0,
                                !.erred = FALSE,
                                !.fresh = p.fresh, !.stale = p.stale]
    /\ UNCHANGED <<latestMediaTimestamp, lastAssistantItem, responseStartTimestampTwilio,
                   markQueue, flushTimers, initTimer, aiState, wsState, crashed,
                   aiOut, twOut>>

\* payloadOk = FALSE: data.media.payload is missing, Buffer.from throws after the
\* clock and the window were written; the catch block logs and the frame ends there.
Media(ts, payloadOk) ==
    /\ TwilioUp
    /\ latestMediaTimestamp' = ts
    /\ captureStartMs' = IF captureStartMs = Null THEN ts ELSE captureStartMs
    /\ bufferedMs' = BufferedOf(captureStartMs', ts)
    /\ aiOut' = IF payloadOk /\ aiState = "OPEN"
                THEN [aiOut EXCEPT !.appended = TRUE] ELSE aiOut
    /\ silenceTimer' = IF payloadOk THEN resetSilenceTimer ELSE silenceTimer
    /\ LET p == IF payloadOk
                THEN pendingAfterReset(silenceTimer, hist.fresh, hist.stale)
                ELSE [fresh |-> hist.fresh, stale |-> hist.stale]
       IN  hist' = [hist EXCEPT !.event = "media", !.rr = "none",
                                !.fresh = p.fresh, !.stale = p.stale]
    /\ UNCHANGED <<streamSid, awaitingResponse, lastAssistantItem,
                   responseStartTimestampTwilio, markQueue, flushTimers, initTimer,
                   aiState, wsState, crashed, twOut>>

\* case 'mark' dropping every queued marker instead of the oldest
shiftMarkQueue_DropAll(queue) == <<>>

\* if (markQueue.length > 0) markQueue.shift()
shiftMarkQueue(queue) == IF Len(queue) > 0 THEN Tail(queue) ELSE queue

Mark ==
    /\ TwilioUp
    /\ markQueue' = shiftMarkQueue(markQueue)
    /\ hist' = [hist EXCEPT !.event = "mark", !.rr = "none"]
    /\ UNCHANGED <<streamSid, latestMediaTimestamp, captureStartMs, bufferedMs,
                   awaitingResponse, silenceTimer, lastAssistantItem,
                   responseStartTimestampTwilio, flushTimers, initTimer, aiState,
                   wsState, crashed, aiOut, twOut>>

Stop ==
    /\ TwilioUp
    /\ silenceTimer' = clearSilenceTimer(silenceTimer)
    /\ RequestResponse("stop", pendingAfterClear(silenceTimer, hist.fresh))
    /\ UNCHANGED <<streamSid, latestMediaTimestamp, captureStartMs, lastAssistantItem,
                   responseStartTimestampTwilio, markQueue, initTimer, aiState, wsState,
                   crashed, aiOut, twOut>>

\* ws.on('close'): the AI socket is closed only if it is open at that moment
TwilioClose ==
    /\ TwilioUp
    /\ wsState' = "CLOSED"
    /\ aiState' = IF aiState = "OPEN" THEN "CLOSED" ELSE aiState
    /\ hist' = [hist EXCEPT !.event = "ws_close", !.rr = "none"]
    /\ UNCHANGED <<streamSid, latestMediaTimestamp, captureStartMs, bufferedMs,
                   awaitingResponse, silenceTimer, lastAssistantItem,
                   responseStartTimestampTwilio, markQueue, flushTimers, initTimer,
                   crashed, aiOut, twOut>>

(* ---------------------------------------------------------------- *)
(* Timers                                                           *)
(* ---------------------------------------------------------------- *)
\* the SILENCE_MS timeout fires
SilenceFire ==
    /\ ~crashed
    /\ silenceTimer = "pending"
    /\ silenceTimer' = "fired"
    /\ RequestResponse("silence", pendingAfterClear(silenceTimer, hist.fresh))
    /\ UNCHANGED <<streamSid, latestMediaTimestamp, captureStartMs, lastAssistantItem,
                   responseStartTimestampTwilio, markQueue, initTimer, aiState, wsState,
                   crashed, aiOut, twOut>>

\* what the COMMIT_DELAY_MS callback does with the socket in state st:
\* "sent" (open), "throws" (send on a connecting socket), "dropped" (closed)
flushOutcome(st) ==
    IF st = "OPEN" THEN "sent" ELSE IF st = "CONNECTING" THEN "throws" ELSE "dropped"

\* the COMMIT_DELAY_MS callback of requestResponse
Flush ==
    /\ ~crashed
    /\ flushTimers > 0
    /\ flushTimers' = flushTimers - 1
    /\ LET o == flushOutcome(aiState) IN
        /\ crashed' = (o = "throws")
        /\ aiOut' = IF o = "sent"
                    THEN [aiOut EXCEPT !.commit = @ + 1, !.create = @ + 1]
                    ELSE aiOut
        /\ captureStartMs' = IF o = "throws" THEN captureStartMs ELSE Null
        /\ bufferedMs' = IF o = "throws" THEN bufferedMs ELSE 0
        /\ hist' = [hist EXCEPT !.event = "flush", !.rr = "none",
                                !.unanswered = IF o = "sent" THEN @ + 1 ELSE @]
    /\ UNCHANGED <<streamSid, latestMediaTimestamp, awaitingResponse, silenceTimer,
                   lastAssistantItem, responseStartTimestampTwilio, markQueue, initTimer,
                   aiState, wsState, twOut>>

\* a repeating timer in place of setTimeout: the callback stays scheduled
initTimerFired_Repeating == "pending"

\* setTimeout is one-shot: once the callback has run nothing is left scheduled
initTimerFired == "done"

\* setTimeout(initializeSession, 150)
InitializeSession ==
    /\ ~crashed
    /\ initTimer = "pending"
    /\ initTimer' = initTimerFired
    /\ aiOut' = IF aiState = "OPEN" THEN [aiOut EXCEPT !.update = @ + 1] ELSE aiOut
    /\ hist' = [hist EXCEPT !.event = "init", !.rr = "none"]
    /\ UNCHANGED <<streamSid, latestMediaTimestamp, captureStartMs, bufferedMs,
                   awaitingResponse, silenceTimer, lastAssistantItem,
                   responseStartTimestampTwilio, markQueue, flushTimers, aiState, wsState,
                   crashed, twOut>>

(* ---------------------------------------------------------------- *)
(* AI peer socket                                                   *)
(* ---------------------------------------------------------------- *)
AiOpen ==
    /\ ~crashed
    /\ aiState = "CONNECTING"
    /\ aiState' = "OPEN"
    /\ initTimer' = "pending"
    /\ hist' = [hist EXCEPT !.event = "ai_open", !.rr = "none"]
    /\ UNCHANGED <<streamSid, latestMediaTimestamp, captureStartMs, bufferedMs,
                   awaitingResponse, silenceTimer, lastAssistantItem,
                   responseStartTimestampTwilio, markQueue, flushTimers, wsState,
                   crashed, aiOut, twOut>>

\* openAiWs.on('close') / on('error'): logged, nothing else
AiClose ==
    /\ ~crashed
    /\ aiState # "CLOSED"
    /\ aiState' = "CLOSED"
    /\ hist' = [hist EXCEPT !.event = "ai_close", !.rr = "none"]
    /\ UNCHANGED <<streamSid, latestMediaTimestamp, captureStartMs, bufferedMs,
                   awaitingResponse, silenceTimer, lastAssistantItem,
                   responseStartTimestampTwilio, markQueue, flushTimers, initTimer,
                   wsState, crashed, aiOut, twOut>>

\* sendMark: nothing before the start event
sendMarkQueue(sid, queue) == IF sid = NoId THEN queue ELSE Append(queue, "responsePart")

\* the start timestamp after a fragment: written only when still null
deltaStartTs(startTs, latest) == IF startTs = Null THEN latest ELSE startTs

\* response.output_audio.delta with a non-empty delta; item = NoId: no item_id field
Delta(item) ==
    /\ AiUp
    /\ Len(markQueue) < MaxMarks
    /\ awaitingResponse' = FALSE
    /\ responseStartTimestampTwilio' =
           deltaStartTs(responseStartTimestampTwilio, latestMediaTimestamp)
    /\ lastAssistantItem' = IF item # NoId THEN item ELSE lastAssistantItem
    /\ markQueue' = sendMarkQueue(streamSid, markQueue)
    /\ twOut' = IF streamSid = NoId THEN TwSend(twOut, "media")
                ELSE TwSend(TwSend(twOut, "media"), "mark")
    /\ hist' = [hist EXCEPT !.event = "delta", !.rr = "none", !.unanswered = 0,
                            !.sinceClear = 0, !.erred = FALSE,
                            !.cycleClock = IF @ = Null \/ hist.cycleEnded
                                           THEN latestMediaTimestamp ELSE @,
                            !.cycleEnded = FALSE]
    /\ UNCHANGED <<streamSid, latestMediaTimestamp, captureStartMs, bufferedMs,
                   silenceTimer, flushTimers, initTimer, aiState, wsState, crashed, aiOut>>

ResponseDone ==
    /\ AiUp
    /\ awaitingResponse' = FALSE
    /\ hist' = [hist EXCEPT !.event = "response.done", !.rr = "none",
                            !.unanswered = 0, !.sinceClear = 0, !.cycleEnded = TRUE,
                            !.erred = FALSE]
    /\ UNCHANGED <<streamSid, latestMediaTimestamp, captureStartMs, bufferedMs,
                   silenceTimer, lastAssistantItem, responseStartTimestampTwilio,
                   markQueue, flushTimers, initTimer, aiState, wsState, crashed,
                   aiOut, twOut>>

SpeechStarted ==
    /\ AiUp
    /\ IF InterruptFires(markQueue, responseStartTimestampTwilio, lastAssistantItem)
       THEN /\ aiOut.truncate < MaxTruncates
            /\ aiOut' = [aiOut EXCEPT
                  !.truncate = @ + 1,
                  !.item = lastAssistantItem,
                  !.audio_end_ms = ElapsedOf(latestMediaTimestamp,
                                             responseStartTimestampTwilio)]
            /\ twOut' = TwSend(twOut, "clear")
            /\ markQueue' = <<>>
            /\ lastAssistantItem' = NoId
            /\ responseStartTimestampTwilio' = Null
            /\ hist' = [hist EXCEPT !.event = "speech_started", !.rr = "none",
                                    !.cycleClock = Null, !.cycleEnded = FALSE]
       ELSE /\ hist' = [hist EXCEPT !.event = "speech_started", !.rr = "none"]
            /\ UNCHANGED <<aiOut, twOut, markQueue, lastAssistantItem,
                           responseStartTimestampTwilio>>
    /\ UNCHANGED <<streamSid, latestMediaTimestamp, captureStartMs, bufferedMs,
                   awaitingResponse, silenceTimer, flushTimers, initTimer, aiState,
                   wsState, crashed>>

SpeechStopped ==
    /\ AiUp
    /\ RequestResponse("speech_stopped", hist.fresh)
    /\ UNCHANGED <<streamSid, latestMediaTimestamp, captureStartMs, silenceTimer,
                   lastAssistantItem, responseStartTimestampTwilio, markQueue, initTimer,
                   aiState, wsState, crashed, aiOut, twOut>>

\* an AI-peer message of type error: logged
AiError ==
    /\ AiUp
    /\ hist' = [hist EXCEPT !.event = "error", !.rr = "none",
                            !.erred = @ \/ awaitingResponse]
    /\ UNCHANGED <<streamSid, latestMediaTimestamp, captureStartMs, bufferedMs,
                   awaitingResponse, silenceTimer, lastAssistantItem,
                   responseStartTimestampTwilio, markQueue, flushTimers, initTimer,
                   aiState, wsState, crashed, aiOut, twOut>>

\* one more event handled, while the session's budget of events lasts
Tick == events < MaxEvents /\ events' = events + 1 /\ UNCHANGED <<wire, codec>>

Next ==
    \/ \E sid \in Sids : Tick /\ Start(sid)
    \/ \E ts \in Timestamps, ok \in BOOLEAN : Tick /\ Media(ts, ok)
    \/ Tick /\ Mark
    \/ Tick /\ Stop
    \/ Tick /\ TwilioClose
    \/ Tick /\ SilenceFire
    \/ Tick /\ Flush
    \/ Tick /\ InitializeSession
    \/ Tick /\ AiOpen
    \/ Tick /\ AiClose
    \/ \E item \in Items \cup {NoId} : Tick /\ Delta(item)
    \/ Tick /\ ResponseDone
    \/ Tick /\ SpeechStarted
    \/ Tick /\ SpeechStopped
    \/ Tick /\ AiError

Spec == Init /\ [][Next]_vars

TypeOK ==
    /\ streamSid \in Sids \cup {NoId}
    /\ latestMediaTimestamp \in Nat
    /\ captureStartMs \in Nat \cup {Null}
    /\ bufferedMs \in Nat
    /\ awaitingResponse \in BOOLEAN
    /\ silenceTimer \in {"null", "pending", "fired", "cleared"}
    /\ lastAssistantItem \in Items \cup {NoId}
    /\ responseStartTimestampTwilio \in Nat \cup {Null}
    /\ Len(markQueue) <= MaxMarks
    /\ flushTimers \in 0..MaxPairs

(* ---------------------------------------------------------------- *)
(* Scenario A: start, media frames 20 ms apart, then silence        *)
(* ---------------------------------------------------------------- *)
\* the next frame of the scenario: the first at 0 ms, each later one 20 ms on;
\* frames arrive on an initialised session and stop once the silence timer fired
MediaA ==
    /\ streamSid # NoId
    /\ initTimer = "done"
    /\ silenceTimer = "pending"
    /\ LET ts == IF captureStartMs = Null THEN 0 ELSE latestMediaTimestamp + 20
       IN  /\ ts <= 20 * (MaxFrames - 1)
           /\ Media(ts, TRUE)

StartA == streamSid = NoId /\ \E sid \in Sids : Start(sid)

NextA ==
    \/ StartA /\ UNCHANGED <<events, wire, codec>>
    \/ MediaA /\ UNCHANGED <<events, wire, codec>>
    \/ SilenceFire /\ UNCHANGED <<events, wire, codec>>
    \/ Flush /\ UNCHANGED <<events, wire, codec>>
    \/ AiOpen /\ UNCHANGED <<events, wire, codec>>
    \/ InitializeSession /\ UNCHANGED <<events, wire, codec>>

SpecA == Init /\ [][NextA]_vars

(* ---------------------------------------------------------------- *)
(* Wire order: the same handlers, recording what crosses the sockets *)
(* ---------------------------------------------------------------- *)
\* a message to the telephony peer: {event, streamSid, media.payload | mark.name}
TwMsg(event, sid, payload) == [event |-> event, streamSid |-> sid, payload |-> payload]

\* ws.send on the telephony socket: the message goes out only on an open socket
twWireSend(tx, open, msg) == IF open THEN Append(tx, msg) ELSE tx

\* openAiWs.send(JSON.stringify({type: ...})) on a socket in state st
aiWireSend(ai, st, type) == IF st = "OPEN" THEN Append(ai, type) ELSE ai

\* the fragment goes out as a media message, then sendMark sends a mark unless
\* streamSid is still null
forwardFragment(tx, open, sid, p) ==
    LET sent == twWireSend(tx, open, TwMsg("media", sid, p))
    IN  IF sid = NoId THEN sent
        ELSE twWireSend(sent, open, TwMsg("mark", sid, "responsePart"))

\* the flush callback: commit, then response.create
flushWire(ai, st) ==
    IF flushOutcome(st) = "sent"
    THEN ai \o <<"input_audio_buffer.commit", "response.create">>
    ELSE ai

StartW(sid) == Start(sid) /\ UNCHANGED wire

MediaW(ts, payloadOk) ==
    /\ Media(ts, payloadOk)
    /\ wire' = [wire EXCEPT !.ai = IF payloadOk
                                   THEN aiWireSend(@, aiState, "input_audio_buffer.append")
                                   ELSE @]

FlushW == Flush /\ wire' = [wire EXCEPT !.ai = flushWire(@, aiState)]

InitializeSessionW ==
    /\ InitializeSession
    /\ wire' = [wire EXCEPT !.ai = aiWireSend(@, aiState, "session.update")]

DeltaW(item, p) ==
    /\ Delta(item)
    /\ wire' = [wire EXCEPT !.rx = Append(@, p),
                            !.tx = forwardFragment(@, wsState = "OPEN", streamSid, p)]

\* response.output_audio.delta with an empty delta: the handler's condition
\* `response.delta` is false, nothing is done
EmptyDelta ==
    /\ AiUp
    /\ wire' = [wire EXCEPT !.rx = Append(@, "")]
    /\ hist' = [hist EXCEPT !.event = "delta", !.rr = "none"]
    /\ UNCHANGED <<streamSid, latestMediaTimestamp, captureStartMs, bufferedMs,
                   awaitingResponse, silenceTimer, lastAssistantItem,
                   responseStartTimestampTwilio, markQueue, flushTimers, initTimer,
                   aiState, wsState, crashed, aiOut, twOut>>

SpeechStartedW ==
    /\ SpeechStarted
    /\ wire' = IF InterruptFires(markQueue, responseStartTimestampTwilio,
                                 lastAssistantItem)
               THEN [wire EXCEPT
                       !.ai = aiWireSend(@, aiState, "conversation.item.truncate"),
                       !.tx = twWireSend(@, wsState = "OPEN",
                                         TwMsg("clear", streamSid, ""))]
               ELSE wire

TickW == events < MaxWireEvents /\ events' = events + 1 /\ UNCHANGED codec

NextW ==
    \/ \E sid \in Sids : TickW /\ StartW(sid)
    \/ \E ts \in Timestamps : TickW /\ MediaW(ts, TRUE)
    \/ TickW /\ Mark /\ UNCHANGED wire
    \/ TickW /\ Stop /\ UNCHANGED wire
    \/ TickW /\ TwilioClose /\ UNCHANGED wire
    \/ TickW /\ SilenceFire /\ UNCHANGED wire
    \/ TickW /\ FlushW
    \/ TickW /\ InitializeSessionW
    \/ TickW /\ AiOpen /\ UNCHANGED wire
    \/ TickW /\ AiClose /\ UNCHANGED wire
    \/ \E item \in {"item1", NoId}, p \in Payloads : TickW /\ DeltaW(item, p)
    \/ TickW /\ EmptyDelta
    \/ TickW /\ ResponseDone /\ UNCHANGED wire
    \/ TickW /\ SpeechStartedW
    \/ TickW /\ SpeechStopped /\ UNCHANGED wire
    \/ TickW /\ AiError /\ UNCHANGED wire

SpecW == Init /\ [][NextW]_vars

(* ---------------------------------------------------------------- *)
(* Frame runs: which media frames are sent on to the AI peer        *)
(* ---------------------------------------------------------------- *)
\* the append sent whatever the state of the AI socket
mediaAppends_NoGuard(ap, st, ts) == Append(ap, ts)

\* if (openAiWs.readyState === WebSocket.OPEN) openAiWs.send(append of the frame)
mediaAppends(ap, st, ts) == IF st = "OPEN" THEN Append(ap, ts) ELSE ap

\* a media frame with a payload, recorded with the state of the AI socket
MediaF(ts) ==
    /\ Media(ts, TRUE)
    /\ wire' = [wire EXCEPT
                  !.ai = aiWireSend(@, aiState, "input_audio_buffer.append"),
                  !.fr = Append(@, [ts |-> ts, open |-> aiState = "OPEN"]),
                  !.ap = mediaAppends(@, aiState, ts)]

TickF == events < MaxFrameEvents /\ events' = events + 1 /\ UNCHANGED codec

NextF ==
    \/ \E sid \in Sids : TickF /\ StartW(sid)
    \/ \E ts \in Timestamps : TickF /\ MediaF(ts)
    \/ TickF /\ Stop /\ UNCHANGED wire
    \/ TickF /\ TwilioClose /\ UNCHANGED wire
    \/ TickF /\ SilenceFire /\ UNCHANGED wire
    \/ TickF /\ FlushW
    \/ TickF /\ InitializeSessionW
    \/ TickF /\ AiOpen /\ UNCHANGED wire
    \/ TickF /\ AiClose /\ UNCHANGED wire

SpecF == Init /\ [][NextF]_vars

(* ---------------------------------------------------------------- *)
(* Malformed frames: every handler, and frames that cannot be parsed *)
(* ---------------------------------------------------------------- *)
\* an exception escapes when it is thrown in a timer callback; thrown in a
\* message handler it is caught by the handler's try/catch and logged
escapes_NoCatch(where) == TRUE

escapes(where) == where = "timer"

\* a telephony frame that is not JSON, or a start or media event without its
\* start / media object: the first statement throws, the catch block logs
MalformedTelephony ==
    /\ TwilioUp
    /\ crashed' = escapes("handler")
    /\ hist' = [hist EXCEPT !.event = "malformed", !.rr = "none", !.malformed = TRUE]
    /\ UNCHANGED <<streamSid, latestMediaTimestamp, captureStartMs, bufferedMs,
                   awaitingResponse, silenceTimer, lastAssistantItem,
                   responseStartTimestampTwilio, markQueue, flushTimers, initTimer,
                   aiState, wsState, aiOut, twOut, wire>>

\* an AI-peer frame that is not JSON: JSON.parse throws, the catch block logs
MalformedAi ==
    /\ AiUp
    /\ crashed' = escapes("handler")
    /\ hist' = [hist EXCEPT !.event = "malformed_ai", !.rr = "none", !.malformed = TRUE]
    /\ UNCHANGED <<streamSid, latestMediaTimestamp, captureStartMs, bufferedMs,
                   awaitingResponse, silenceTimer, lastAssistantItem,
                   responseStartTimestampTwilio, markQueue, flushTimers, initTimer,
                   aiState, wsState, aiOut, twOut, wire>>

TickM == events < MaxMalformedEvents /\ events' = events + 1 /\ UNCHANGED codec

NextM ==
    \/ TickM /\ Next
    \/ TickM /\ MalformedTelephony
    \/ TickM /\ MalformedAi

SpecM == Init /\ [][NextM]_vars

(* ---------------------------------------------------------------- *)
(* Decoder runs: mulawBase64ToPcm16Base64 on one frame              *)
(* ---------------------------------------------------------------- *)
\* every variable of the relay, which the decoder does not touch
relay == <<streamSid, latestMediaTimestamp, captureStartMs, bufferedMs, awaitingResponse,
           silenceTimer, lastAssistantItem, responseStartTimestampTwilio, markQueue,
           flushTimers, initTimer, aiState, wsState, crashed, aiOut, twOut, events, hist,
           wire>>

\* JavaScript's 32-bit operators on the values the decoder handles
RECURSIVE BitAnd(_, _)
BitAnd(a, b) ==
    IF a = 0 \/ b = 0 THEN 0
    ELSE (a % 2) * (b % 2) + 2 * BitAnd(a \div 2, b \div 2)

\* ~x: its low 31 bits (the decoder masks the result with 0xff)
BitNot(x) == 2147483647 - x

\* x >> n and x << n (no operand of the decoder reaches 2^31)
Shr(x, n) == x \div 2^n
Shl(x, n) == x * 2^n

\* the decoder without its clamp to 16 bits
mulawByteToPcm16_NoClamp(u8) ==
    LET u == BitAnd(BitNot(u8), 255)
        magnitude == Shl(Shl(BitAnd(u, 15), 4) + 8, BitAnd(Shr(u, 4), 7) + 3) - 132
    IN  IF BitAnd(u, 128) # 0 THEN -magnitude ELSE magnitude

\* the G.711 reference expansion: ((mantissa << 3) + 0x84) << exponent, minus 0x84
mulawByteToPcm16_G711(u8) ==
    LET u == BitAnd(BitNot(u8), 255)
        magnitude == Shl(Shl(BitAnd(u, 15), 3) + 132, BitAnd(Shr(u, 4), 7)) - 132
    IN  IF BitAnd(u, 128) # 0 THEN -magnitude ELSE magnitude

mulawByteToPcm16(u8) ==
    LET u == BitAnd(BitNot(u8), 255)
        sign == BitAnd(u, 128)
        exponent == BitAnd(Shr(u, 4), 7)
        mantissa == BitAnd(u, 15)
        bias == 132
        magnitude == Shl(Shl(mantissa, 4) + 8, exponent + 3) - bias
        sample == IF sign # 0 THEN -magnitude ELSE magnitude
    IN  IF sample > 32767 THEN 32767
        ELSE IF sample < -32768 THEN -32768
        ELSE sample

\* pcmBytes.writeInt16LE(s, ...): the two bytes of s, low byte first
writeInt16LE(s) ==
    LET w == (s + 65536) % 65536
    IN  <<w % 256, w \div 256>>

\* the sample two bytes written by writeInt16LE stand for
readInt16LE(lo, hi) ==
    LET w == lo + 256 * hi
    IN  IF w >= 32768 THEN w - 65536 ELSE w

\* the frames decoded: up to MaxFrameBytes bytes, the first any byte, the
\* others boundary bytes
BoundaryBytes == {0, 127, 128, 255}
Frames ==
    {<<>>} \cup
    {<<b>> \o t : b \in 0..255,
                  t \in UNION {[1..n -> BoundaryBytes] : n \in 0..(MaxFrameBytes - 1)}}

\* const mu = Buffer.from(b64, 'base64'); pcmBytes allocated
LoadFrame(frame) ==
    /\ ~codec.loaded
    /\ codec' = [mu |-> frame, i |-> 0, pcm |-> <<>>, loaded |-> TRUE]
    /\ UNCHANGED relay

\* one iteration of the loop
DecodeByte ==
    /\ codec.loaded
    /\ codec.i < Len(codec.mu)
    /\ codec' = [codec EXCEPT
                   !.i = @ + 1,
                   !.pcm = @ \o writeInt16LE(mulawByteToPcm16(codec.mu[codec.i + 1]))]
    /\ UNCHANGED relay

NextD ==
    \/ ~codec.loaded /\ \E frame \in Frames : LoadFrame(frame)
    \/ DecodeByte

SpecD == Init /\ [][NextD]_vars

(* ---------------------------------------------------------------- *)
(* The peer-signalled voice-activity variant (src/unnamed/part_001)  *)
(* ---------------------------------------------------------------- *)
\* case 'start' of the variant
StartVad(sid) ==
    /\ TwilioUp
    /\ streamSid' = sid
    /\ responseStartTimestampTwilio' = Null
    /\ latestMediaTimestamp' = 0
    /\ hist' = [hist EXCEPT !.event = "start", !.rr = "none"]
    /\ UNCHANGED <<captureStartMs, bufferedMs, awaitingResponse, silenceTimer,
                   lastAssistantItem, markQueue, flushTimers, initTimer, aiState,
                   wsState, crashed, aiOut, twOut>>

\* case 'media' of the variant: the payload is passed on as it is
MediaVad(ts) ==
    /\ TwilioUp
    /\ latestMediaTimestamp' = ts
    /\ aiOut' = IF aiState = "OPEN" THEN [aiOut EXCEPT !.appended = TRUE] ELSE aiOut
    /\ hist' = [hist EXCEPT !.event = "media", !.rr = "none"]
    /\ UNCHANGED <<streamSid, captureStartMs, bufferedMs, awaitingResponse, silenceTimer,
                   lastAssistantItem, responseStartTimestampTwilio, markQueue,
                   flushTimers, initTimer, aiState, wsState, crashed, twOut>>

\* input_audio_buffer.speech_stopped in the variant: commit and response.create
\* are sent at once
SpeechStoppedVad ==
    /\ AiUp
    /\ aiOut.commit < MaxPairs
    /\ aiOut' = [aiOut EXCEPT !.commit = @ + 1, !.create = @ + 1]
    /\ hist' = [hist EXCEPT !.event = "speech_stopped", !.rr = "commit",
                            !.unanswered = @ + 1]
    /\ UNCHANGED <<streamSid, latestMediaTimestamp, captureStartMs, bufferedMs,
                   awaitingResponse, silenceTimer, lastAssistantItem,
                   responseStartTimestampTwilio, markQueue, flushTimers, initTimer,
                   aiState, wsState, crashed, twOut>>

TickV == events < MaxVadEvents /\ events' = events + 1 /\ UNCHANGED <<wire, codec>>

\* the handlers the variant shares with src/index.js are taken from there
NextV ==
    \/ \E sid \in Sids : TickV /\ StartVad(sid)
    \/ \E ts \in Timestamps : TickV /\ MediaVad(ts)
    \/ TickV /\ Mark
    \/ TickV /\ TwilioClose
    \/ TickV /\ InitializeSession
    \/ TickV /\ AiOpen
    \/ TickV /\ AiClose
    \/ \E item \in Items \cup {NoId} : TickV /\ Delta(item)
    \/ TickV /\ ResponseDone
    \/ TickV /\ SpeechStoppedVad

SpecV == Init /\ [][NextV]_vars

(* ---------------------------------------------------------------- *)
(* Turn commit under fair timers: the session stays up, the frames   *)
(* carry rising timestamps, timers fire and replies are delivered    *)
(* ---------------------------------------------------------------- *)
LiveTimestamps == {i * 2 * TsStep : i \in 0..MaxLiveTsIdx}

\* the start event, the first message of a stream
StartL(sid) == streamSid = NoId /\ captureStartMs = Null /\ Start(sid)

\* a media frame with a payload, its timestamp not before the previous one
MediaL(ts) == ts >= latestMediaTimestamp /\ Media(ts, TRUE)

\* the AI peer answers a request it has received
ReplyDelivered == hist.unanswered > 0 /\ ResponseDone

\* frames and the opening of the AI socket come from outside, at most
\* MaxLiveEvents of them; timers and replies are not counted
TickL == events < MaxLiveEvents /\ events' = events + 1 /\ UNCHANGED <<wire, codec>>

SilenceFireL == SilenceFire /\ UNCHANGED <<events, wire, codec>>
FlushL == Flush /\ UNCHANGED <<events, wire, codec>>
InitializeSessionL == InitializeSession /\ UNCHANGED <<events, wire, codec>>
ReplyDeliveredL == ReplyDelivered /\ UNCHANGED <<events, wire, codec>>

NextL ==
    \/ \E sid \in Sids : TickL /\ StartL(sid)
    \/ \E ts \in LiveTimestamps : TickL /\ MediaL(ts)
    \/ TickL /\ AiOpen
    \/ SilenceFireL
    \/ FlushL
    \/ InitializeSessionL
    \/ ReplyDeliveredL

\* setTimeout callbacks run once their delay has passed; the reply to a
\* request that was sent is delivered
SpecL ==
    /\ Init
    /\ [][NextL]_vars
    /\ WF_vars(SilenceFireL)
    /\ WF_vars(FlushL)
    /\ WF_vars(InitializeSessionL)
    /\ WF_vars(ReplyDeliveredL)

(* ---------------------------------------------------------------- *)
(* Marker runs: the telephony peer acknowledges the markers it was   *)
(* sent, each once and in order                                      *)
(* ---------------------------------------------------------------- *)
\* the mark messages that went out on the telephony socket
MarksSent(tx) == Len(SelectSeq(tx, LAMBDA m : m.event = "mark"))

\* case 'mark', the peer echoing a marker it has received and not yet echoed
MarkAcked ==
    /\ wire.acked < MarksSent(wire.tx)
    /\ Mark
    /\ wire' = [wire EXCEPT !.acked = @ + 1]

TickK == events < MaxMarkEvents /\ events' = events + 1 /\ UNCHANGED codec

NextK ==
    \/ \E sid \in Sids : TickK /\ StartW(sid)
    \/ \E ts \in Timestamps : TickK /\ MediaW(ts, TRUE)
    \/ TickK /\ MarkAcked
    \/ TickK /\ InitializeSessionW
    \/ TickK /\ AiOpen /\ UNCHANGED wire
    \/ \E item \in {"item1", NoId}, p \in Payloads : TickK /\ DeltaW(item, p)
    \/ TickK /\ ResponseDone /\ UNCHANGED wire
    \/ TickK /\ SpeechStartedW

SpecK == Init /\ [][NextK]_vars

(* ---------------------------------------------------------------- *)
(* The buffering variant (src/unnamed/part_002)                      *)
(* ---------------------------------------------------------------- *)
\* the session fields of src/index.js the variant does not have
notInVariant == <<latestMediaTimestamp, captureStartMs, bufferedMs, awaitingResponse,
                  silenceTimer, lastAssistantItem, responseStartTimestampTwilio,
                  markQueue, flushTimers, initTimer, aiOut, twOut>>

\* decode(ulaw): the PCM16 chunk of one frame
decode(p) == <<"pcm16", p>>

\* Buffer.concat(pcm16Buffer): the chunks one after the other
concat(chunks) == chunks

\* the three sends of commitAudio on a socket in state st
commitAudio(st, ai) ==
    IF st = "OPEN"
    THEN ai \o <<"input_audio_buffer.append", "input_audio_buffer.commit",
                 "response.create">>
    ELSE ai

\* openAiWs.on("open"): session.update is sent at once
AiOpenB ==
    /\ ~crashed
    /\ aiState = "CONNECTING"
    /\ aiState' = "OPEN"
    /\ wire' = [wire EXCEPT !.ai = Append(@, "session.update")]
    /\ hist' = [hist EXCEPT !.event = "ai_open", !.rr = "none"]
    /\ UNCHANGED <<streamSid, wsState, crashed, notInVariant>>

\* data.event === "media": pushed when there is a payload, nothing is sent
MediaB(p, hasPayload) ==
    /\ TwilioUp
    /\ wire' = [wire EXCEPT !.pcm16Buffer = IF hasPayload THEN Append(@, decode(p)) ELSE @]
    /\ hist' = [hist EXCEPT !.event = "media", !.rr = "none"]
    /\ UNCHANGED <<streamSid, aiState, wsState, crashed, notInVariant>>

\* data.event === "start"
StartB(sid) ==
    /\ TwilioUp
    /\ streamSid' = sid
    /\ hist' = [hist EXCEPT !.event = "start", !.rr = "none"]
    /\ UNCHANGED <<aiState, wsState, crashed, notInVariant, wire>>

\* data.event === "stop": commitAudio. On a connecting socket the first send
\* throws, the handler's catch logs, and the buffer is not emptied; on a
\* closed socket the sends are dropped and the buffer is emptied.
StopB ==
    /\ TwilioUp
    /\ wire' = [wire EXCEPT
                  !.ai = commitAudio(aiState, @),
                  !.audio = IF aiState = "OPEN"
                            THEN Append(@, concat(wire.pcm16Buffer)) ELSE @,
                  !.pcm16Buffer = IF flushOutcome(aiState) = "throws" THEN @ ELSE <<>>]
    /\ hist' = [hist EXCEPT !.event = "stop", !.rr = "none"]
    /\ UNCHANGED <<streamSid, aiState, wsState, crashed, notInVariant>>

\* response.output_audio.delta with a delta: forwarded with the current streamSid
DeltaB(p) ==
    /\ AiUp
    /\ wire' = [wire EXCEPT !.rx = Append(@, p),
                            !.tx = twWireSend(@, wsState = "OPEN",
                                              TwMsg("media", streamSid, p))]
    /\ hist' = [hist EXCEPT !.event = "delta", !.rr = "none"]
    /\ UNCHANGED <<streamSid, aiState, wsState, crashed, notInVariant>>

TickB == events < MaxBufferEvents /\ events' = events + 1 /\ UNCHANGED codec

NextB ==
    \/ TickB /\ AiOpenB
    \/ \E p \in Payloads, ok \in BOOLEAN : TickB /\ MediaB(p, ok)
    \/ \E sid \in Sids : TickB /\ StartB(sid)
    \/ TickB /\ StopB
    \/ \E p \in Payloads : TickB /\ DeltaB(p)
    \/ TickB /\ TwilioClose /\ UNCHANGED wire
    \/ TickB /\ AiClose /\ UNCHANGED wire

SpecB == Init /\ [][NextB]_vars

(* ================================================================ *)
(* Claims                                                          *)
(* ================================================================ *)
MediaStep == \E ts \in Timestamps, ok \in BOOLEAN : Media(ts, ok)
TurnCloseTrigger == Stop \/ SilenceFire \/ SpeechStopped

\* C1: at most one commit+request pair is outstanding: the flush timers still
\* pending plus the pairs sent and not yet answered by a fragment or
\* response.done never exceed one.
C1_AtMostOneOutstanding == flushTimers + hist.unanswered <= 1

C4_ShortWindowStaysOpen ==
    [][ ( /\ TurnCloseTrigger
          /\ ~awaitingResponse /\ captureStartMs # Null /\ bufferedMs < MIN_BUFFER_MS )
        => ( /\ UNCHANGED <<aiOut, flushTimers, captureStartMs, bufferedMs,
                            latestMediaTimestamp>>
             /\ ~awaitingResponse' ) ]_vars

\* a trigger has just been turned down on an open window holding some audio
C4_Witness ==
    /\ hist.rr = "short" /\ captureStartMs # Null
    /\ bufferedMs > 0 /\ bufferedMs < MIN_BUFFER_MS /\ ~awaitingResponse

\* C5: speech_started with delivery markers queued sends exactly one truncate
\* (item_id = lastAssistantItem, audio_end_ms = clock - reply start) and exactly
\* one clear, and resets the playback state, in that one step.
C5_InterruptionTruncatesAndResets ==
    [][ (SpeechStarted /\ Len(markQueue) > 0) =>
          /\ aiOut'.truncate = aiOut.truncate + 1
          /\ aiOut'.item = lastAssistantItem
          /\ aiOut'.audio_end_ms = latestMediaTimestamp - responseStartTimestampTwilio
          /\ twOut'.clear = twOut.clear + 1
          /\ markQueue' = <<>>
          /\ lastAssistantItem' = NoId
          /\ responseStartTimestampTwilio' = Null ]_vars

\* C6: delivery markers are queued only while a reply id is set.
C6_MarkersOnlyWithReplyId == Len(markQueue) > 0 => lastAssistantItem # NoId

\* C7: every truncate carries audio_end_ms >= 0 and equal to the media clock
\* minus the reply start at the moment speech_started is handled.
C7_TruncateElapsedExact ==
    [][ (SpeechStarted /\ aiOut'.truncate = aiOut.truncate + 1) =>
          /\ aiOut'.audio_end_ms >= 0
          /\ aiOut'.audio_end_ms =
                 latestMediaTimestamp - responseStartTimestampTwilio ]_vars

\* C8: whenever the reply start is set it is the media clock at the first
\* fragment of the reply now being forwarded.
C8_ReplyStartIsFirstFragmentClock ==
    responseStartTimestampTwilio # Null =>
        responseStartTimestampTwilio = hist.cycleClock

\* C9: after every media frame the open window holds bufferedMs = clock -
\* captureStartMs, not negative, and not less than before the frame.
C9_BufferedTracksClock ==
    [][ MediaStep =>
          /\ bufferedMs' = latestMediaTimestamp' - captureStartMs'
          /\ bufferedMs' >= 0
          /\ (captureStartMs # Null => bufferedMs' >= bufferedMs) ]_vars

\* C10: the media clock never decreases.
C10_ClockNeverDecreases ==
    [][ latestMediaTimestamp' >= latestMediaTimestamp ]_vars

\* C11: awaitingResponse becomes true only in a step that accepts a turn close
\* (the commit+request pair is issued), and becomes false only on a
\* response.output_audio.delta or a response.done; no other event clears it.
C11_AwaitingOnlyClearedByReply ==
    [][ /\ (~awaitingResponse /\ awaitingResponse') =>
               (hist'.rr = "commit" /\ flushTimers' = flushTimers + 1)
        /\ (awaitingResponse /\ ~awaitingResponse') =>
               hist'.event \in {"delta", "response.done"} ]_vars

\* C12: speech_started sends the truncate and the clear and resets the playback
\* state if and only if markers are queued and the reply start is set; in every
\* other state it sends nothing to either peer and changes no session variable.
C12_InterruptIffMarkersAndStart ==
    [][ SpeechStarted =>
          IF Len(markQueue) > 0 /\ responseStartTimestampTwilio # Null
          THEN /\ aiOut'.truncate = aiOut.truncate + 1
               /\ wsState = "OPEN" => twOut'.clear = twOut.clear + 1
               /\ markQueue' = <<>>
               /\ lastAssistantItem' = NoId
               /\ responseStartTimestampTwilio' = Null
          ELSE UNCHANGED <<session, aiOut, twOut>> ]_vars

\* the payloads of the media messages of tx, in order
PayloadsOf(tx) ==
    LET m == SelectSeq(tx, LAMBDA x : x.event = "media")
    IN  [i \in 1..Len(m) |-> m[i].payload]

\* the non-empty fragments of rx, in order
NonEmpty(rx) == SelectSeq(rx, LAMBDA p : p # "")

\* C13: the media payloads sent to the telephony peer are, in order and
\* verbatim, the non-empty fragments received from the AI peer, and every
\* fragment received is sent as one media message directly followed by one mark,
\* with one marker pushed at the tail of markQueue.
C13_FragmentsForwardedInOrderWithMarker ==
    [][ /\ PayloadsOf(wire'.tx) = NonEmpty(wire'.rx)
        /\ (Len(wire'.rx) > Len(wire.rx) /\ wire'.rx[Len(wire'.rx)] # "") =>
              /\ Len(wire'.tx) = Len(wire.tx) + 2
              /\ wire'.tx[Len(wire'.tx) - 1].event = "media"
              /\ wire'.tx[Len(wire'.tx)].event = "mark"
              /\ markQueue' = Append(markQueue, "responsePart") ]_vars

\* C14: a mark event removes exactly the oldest marker of markQueue and changes
\* nothing else; on an empty markQueue it leaves the whole session state as it
\* was; in neither case is anything sent or the session ended.
C14_MarkPopsOldestOnly ==
    [][ Mark =>
          /\ markQueue' = IF Len(markQueue) > 0
                          THEN SubSeq(markQueue, 2, Len(markQueue))
                          ELSE <<>>
          /\ UNCHANGED <<streamSid, latestMediaTimestamp, captureStartMs, bufferedMs,
                         awaitingResponse, silenceTimer, lastAssistantItem,
                         responseStartTimestampTwilio, flushTimers, initTimer,
                         aiState, wsState, crashed, aiOut, twOut>> ]_vars

\* a mark has just been handled with two markers queued: the newer one is left
C14_Witness == hist.event = "mark" /\ Len(markQueue) = 1 /\ twOut.mark /\ ~crashed

\* C15: the step that accepts a turn close sets awaitingResponse at once; when
\* its flush delay ends, input_audio_buffer.commit and then response.create are
\* sent with nothing between them and after every append sent so far, and the
\* turn window is absent from then on.
C15_FlushSendsOrderedPair ==
    [][ /\ flushTimers' = flushTimers + 1 => awaitingResponse'
        /\ flushTimers' = flushTimers - 1 =>
              /\ wire'.ai = wire.ai \o <<"input_audio_buffer.commit", "response.create">>
              /\ captureStartMs' = Null
              /\ bufferedMs' = 0 ]_vars

\* a media frame whose payload decodes
AudioFrameStep == \E ts \in Timestamps : Media(ts, TRUE)

\* C16 as stated: after each of a media frame, a speech_stopped and a stop the
\* turn window is open and one silence timer is pending.
C16_AllThreeRearm ==
    [][ (AudioFrameStep \/ SpeechStopped \/ Stop) =>
          (captureStartMs' # Null /\ silenceTimer' = "pending") ]_vars

\* C16 amended: a media frame opens the turn window or keeps its start, and
\* rearms the silence timer by cancel-and-reschedule, so exactly one timeout is
\* scheduled after it; speech_stopped neither opens nor extends the window and
\* leaves the timer as it was; stop neither opens nor extends the window and
\* cancels the timer, so none is scheduled after it.
C16_OnlyMediaRearms ==
    [][ /\ AudioFrameStep =>
              /\ captureStartMs' # Null
              /\ captureStartMs # Null => captureStartMs' = captureStartMs
              /\ silenceTimer' = "pending"
              /\ hist'.fresh + hist'.stale = 1
        /\ SpeechStopped =>
              /\ UNCHANGED <<captureStartMs, bufferedMs, latestMediaTimestamp,
                             silenceTimer>>
              /\ hist'.fresh = hist.fresh /\ hist'.stale = hist.stale
        /\ Stop =>
              /\ UNCHANGED <<captureStartMs, bufferedMs, latestMediaTimestamp>>
              /\ silenceTimer' # "pending"
              /\ hist'.fresh + hist'.stale = 0 ]_vars

\* a stop has just cancelled the timer a media frame had armed on an open window
C16_Witness ==
    /\ hist.event = "stop" /\ silenceTimer = "cleared"
    /\ captureStartMs # Null /\ hist.fresh = 0

\* C17: every start and every audio frame rearms the silence timer; at no time
\* is more than one silence timeout scheduled; and the timeout that fires is the
\* one scheduled by the most recent start or audio frame, so the whole quiet
\* interval has passed since that frame with no audio frame in between.
C17_OneTimerFiresAfterQuiet ==
    [][ /\ hist'.fresh + hist'.stale <= 1
        /\ (AudioFrameStep \/ \E sid \in Sids : Start(sid)) =>
              (silenceTimer' = "pending" /\ hist'.fresh = 1)
        /\ SilenceFire =>
              (silenceTimer = "pending" /\ hist.fresh = 1 /\ hist.stale = 0) ]_vars

\* the silence timer armed by the last frame has fired and closed the turn
C17_Witness ==
    /\ hist.event = "silence" /\ hist.rr = "commit" /\ silenceTimer = "fired"
    /\ hist.fresh = 0 /\ hist.stale = 0 /\ awaitingResponse

\* C18: once the AI socket has closed or failed the telephony socket is closed
\* too: the telephony socket is never open while the AI socket is closed.
C18_AiCloseClosesTelephony == aiState = "CLOSED" => wsState # "OPEN"

\* C19: once the telephony socket has closed the AI socket is closed, whether
\* it was still connecting or already open: no AI socket outlives the session.
C19_TelephonyCloseClosesAi == wsState = "CLOSED" => aiState = "CLOSED"

\* C20: the telephony close cancels the silence timer and every pending flush:
\* after it no silence-timer firing and no flush firing changes a session
\* variable, sends a message to the AI peer or raises an exception.
C20_TeardownCancelsTimers ==
    [][ (wsState = "CLOSED" /\ (SilenceFire \/ Flush)) =>
            UNCHANGED <<session, aiOut, crashed>> ]_vars

\* C21: a flush that finds the AI socket not open (connecting or closed) is a
\* no-op: nothing is sent, no exception escapes the timer callback, and the
\* telephony socket stays as it was.
C21_FlushOnUnopenedSocketIsNoOp ==
    [][ (Flush /\ aiState # "OPEN") =>
            (UNCHANGED <<aiOut, wsState>> /\ ~crashed') ]_vars

\* a frame the handlers cannot process: not JSON, a start or media event
\* without its object, or a media event without payload
MalformedStep ==
    MalformedTelephony \/ MalformedAi \/ \E ts \in Timestamps : Media(ts, FALSE)

C23_OneSessionUpdateIfStillOpen ==
    [][ /\ aiOut'.update <= 1
        /\ aiOut'.update # aiOut.update =>
               (InitializeSession /\ aiState = "OPEN" /\ aiOut.update = 0)
        /\ InitializeSession =>
               aiOut'.update = (IF aiState = "OPEN" THEN 1 ELSE 0) ]_vars

\* the one session.update has just been sent on the open AI socket
C23_Witness ==
    /\ hist.event = "init" /\ initTimer = "done"
    /\ aiOut.update = 1 /\ aiState = "OPEN"

\* the timestamps of the frames of fr received on an open AI socket, in order
DueAppends(fr) ==
    LET o == SelectSeq(fr, LAMBDA f : f.open)
    IN  [i \in 1..Len(o) |-> o[i].ts]

\* C24: the appends sent so far are exactly the media frames received while
\* the AI socket was open, one append per frame and in receipt order; a frame
\* received while the socket was not open has no append, then or later.
C24_AppendsAreFramesReceivedOpen ==
    /\ wire.ap = DueAppends(wire.fr)
    /\ Len(SelectSeq(wire.ai, LAMBDA m : m = "input_audio_buffer.append"))
           = Len(wire.ap)

\* a frame was dropped on the connecting socket, the next one was appended on
\* the open socket, a third was dropped after the socket closed
C24_Witness ==
    /\ Len(wire.fr) = 3 /\ Len(wire.ap) = 1
    /\ ~wire.fr[1].open /\ wire.fr[2].open /\ ~wire.fr[3].open
    /\ wire.ap[1] = wire.fr[2].ts /\ aiState = "CLOSED"

\* the k-th sample written to pcmBytes
SampleAt(k) == readInt16LE(codec.pcm[2 * k - 1], codec.pcm[2 * k])

\* C25: every byte 0xFF of a frame decodes to the sample 0.
C25_ByteFFDecodesToZero ==
    \A k \in 1..codec.i : codec.mu[k] = 255 => SampleAt(k) = 0

Abs(x) == IF x < 0 THEN -x ELSE x

\* C26: every byte 0x00 of a frame decodes to a negative sample within the
\* signed 16-bit range, and no byte of any frame decodes to a sample of larger
\* magnitude than that one.
C26_Byte00IsLargestNegative ==
    /\ \A k \in 1..codec.i :
          codec.mu[k] = 0 => (SampleAt(k) < 0 /\ SampleAt(k) >= -32768)
    /\ \A k \in 1..codec.i : Abs(SampleAt(k)) <= Abs(mulawByteToPcm16(0))
    /\ mulawByteToPcm16(0) = -32768

\* a frame starting with byte 0x00 has been decoded, three bytes long
C26_Witness ==
    /\ codec.loaded /\ codec.i = 3 /\ Len(codec.mu) = 3
    /\ codec.mu[1] = 0 /\ SampleAt(1) = -32768

\* the algorithm as specified: invert the bits; sign = bit 7, exponent = bits
\* 6-4, mantissa = bits 3-0; ((mantissa << 4) + 8) << (exponent + 3), minus
\* 132; negate if the sign is set; clamp
SpecifiedDecode(b) ==
    LET inv == 255 - b
        sign == inv \div 128
        exponent == (inv \div 16) % 8
        mantissa == inv % 16
        magnitude == (mantissa * 16 + 8) * 2^(exponent + 3) - 132
        sample == IF sign = 1 THEN -magnitude ELSE magnitude
    IN  IF sample > 32767 THEN 32767 ELSE IF sample < -32768 THEN -32768 ELSE sample

\* C27: every byte decodes to exactly the value of the specified algorithm,
\* within [-32768, 32767], and after i bytes of the frame exactly i samples
\* have been written, the k-th being the decoding of the k-th byte.
C27_DecoderMatchesSpecifiedAlgorithm ==
    /\ Len(codec.pcm) = 2 * codec.i
    /\ codec.i <= Len(codec.mu)
    /\ \A k \in 1..codec.i :
          /\ SampleAt(k) = SpecifiedDecode(codec.mu[k])
          /\ SampleAt(k) >= -32768 /\ SampleAt(k) <= 32767

\* a whole three-byte frame has been decoded into three samples
C27_Witness ==
    /\ codec.loaded /\ Len(codec.mu) = 3 /\ codec.i = 3 /\ Len(codec.pcm) = 6
    /\ codec.mu[1] = 200 /\ codec.mu[2] = 255 /\ codec.mu[3] = 0

\* C28: in the voice-activity variant at most one commit+request pair is
\* outstanding: the pairs sent and not yet answered by a fragment or a
\* response.done never exceed one.
C28_VadAtMostOneOutstanding == hist.unanswered <= 1

\* the turn window holds at least MIN_BUFFER_MS of audio and the AI socket is open
WindowReady ==
    /\ aiState = "OPEN" /\ ~crashed
    /\ captureStartMs # Null
    /\ BufferedOf(captureStartMs, latestMediaTimestamp) >= MIN_BUFFER_MS

\* the flush callback has just sent a commit+request pair and cleared the window
PairSent == hist.event = "flush" /\ captureStartMs = Null /\ hist.unanswered > 0

\* C29: whenever the window holds at least the minimum of audio and the AI
\* socket is open, a commit+request pair covering the window is eventually
\* sent, timers firing and replies being delivered, also when the silence
\* timer fired while an earlier request was awaiting its reply.
C29_ReadyWindowEventuallyCommitted == WindowReady ~> PairSent

\* C30: an error event from the AI peer changes no session field, no timer and
\* sends nothing; awaitingResponse, once set, stays set until a fragment,
\* a response.done or a start event, and every turn-close trigger that
\* arrives before that accepts nothing: no flush is scheduled, nothing is sent.
C30_ErrorLeavesAwaitingSet ==
    [][ /\ AiError => UNCHANGED <<session, silenceTimer, flushTimers, initTimer,
                                  aiState, wsState, crashed, aiOut, twOut>>
        /\ (awaitingResponse /\ hist'.event \notin {"delta", "response.done", "start"})
               => awaitingResponse'
        /\ (awaitingResponse /\ hist.erred /\ TurnCloseTrigger)
               => (hist'.rr = "skip" /\ UNCHANGED <<session, flushTimers, aiOut>>) ]_vars

\* a sent pair was answered with an error event only, and a later trigger was ignored
C30_Witness ==
    /\ hist.erred /\ hist.unanswered = 1 /\ awaitingResponse
    /\ hist.rr = "skip" /\ hist.event \in {"stop", "silence", "speech_stopped"}

\* C31: on the AI socket session.update precedes every
\* input_audio_buffer.append, input_audio_buffer.commit and response.create.
C31_SessionUpdateBeforeAudio ==
    \A i \in 1..Len(wire.ai) :
        wire.ai[i] \in {"input_audio_buffer.append", "input_audio_buffer.commit",
                        "response.create"}
            => \E j \in 1..(i - 1) : wire.ai[j] = "session.update"

\* C32: when the telephony peer acknowledges every marker it was sent, once
\* and in order, the length of markQueue equals the number of markers sent
\* and not yet acknowledged, across interruptions too.
C32_QueueCountsUnackedMarkers ==
    Len(markQueue) = MarksSent(wire.tx) - wire.acked

\* C33: every input_audio_buffer.commit is sent while a turn window is open
\* whose bufferedMs is at least MIN_BUFFER_MS at the moment of sending; no
\* commit is sent while the window is absent.
C33_CommitOnlyOnOpenLongWindow ==
    [][ aiOut'.commit # aiOut.commit
            => (captureStartMs # Null /\ bufferedMs >= MIN_BUFFER_MS) ]_vars

\* C34: every message sent to the telephony peer (media, mark, clear) carries
\* the streamSid assigned by the start event, none is sent while streamSid is
\* unset, and whenever a forwarded fragment sets responseStartTimestampTwilio
\* a marker is queued for that fragment.
C34_TelephonyMessagesCarryStreamSid ==
    [][ /\ \A i \in 1..Len(wire'.tx) : wire'.tx[i].streamSid # NoId
        /\ (responseStartTimestampTwilio = Null /\ responseStartTimestampTwilio' # Null)
               => Len(markQueue') = Len(markQueue) + 1 ]_vars

\* a media event with a timestamp and no payload: its handling fails partway
FailedFrameStep == \E ts \in Timestamps : Media(ts, FALSE)

\* C35: a frame whose handling fails partway leaves every session field
\* unchanged (clock, turn window, awaitingResponse, playback state) and leaves
\* the silence timer exactly as it was.
C35_FailedFrameChangesNothing ==
    [][ FailedFrameStep => UNCHANGED <<session, silenceTimer>> ]_vars

\* a media frame with a payload, in the runs that record the wire
AudioFrameStepW == \E ts \in Timestamps : MediaW(ts, TRUE)

\* the flush callback has sent its pair in this step
PairGoesOut == FlushW /\ aiOut'.commit # aiOut.commit

\* C36: a media frame received during the flush delay leaves captureStartMs
\* unchanged and its append goes out before the commit; the sending of the pair
\* closes the window, and the first media frame after it opens a new window
\* with captureStartMs equal to its timestamp and bufferedMs = 0.
C36_FlushDelayFramesExtendWindow ==
    [][ /\ (AudioFrameStepW /\ flushTimers > 0) =>
               /\ captureStartMs' = captureStartMs
               /\ aiState = "OPEN" =>
                      wire'.ai = Append(wire.ai, "input_audio_buffer.append")
        /\ PairGoesOut =>
               /\ captureStartMs' = Null /\ bufferedMs' = 0
               /\ wire'.ai = wire.ai \o <<"input_audio_buffer.commit", "response.create">>
        /\ (AudioFrameStepW /\ hist.event = "flush" /\ flushTimers = 0) =>
               (captureStartMs' = latestMediaTimestamp' /\ bufferedMs' = 0) ]_vars

\* a media event of the buffering variant
MediaStepB == \E p \in Payloads, ok \in BOOLEAN : MediaB(p, ok)

\* C37: in the buffering variant a media frame sends nothing to the AI peer
\* and is only accumulated; each stop event sends exactly append (all the
\* accumulated audio, in receipt order), commit, response.create, in that
\* order, and empties the buffer, a stop with an empty buffer included.
C37_StopSendsTripleAndEmptiesBuffer ==
    [][ /\ MediaStepB => (wire'.ai = wire.ai /\ wire'.audio = wire.audio)
        /\ StopB =>
               /\ wire'.ai = wire.ai \o <<"input_audio_buffer.append",
                                          "input_audio_buffer.commit",
                                          "response.create">>
               /\ wire'.audio = Append(wire.audio, wire.pcm16Buffer)
               /\ wire'.pcm16Buffer = <<>> ]_vars

====
